---- MODULE Spec2Model ----
(***************************************************************************)
(* Identity reconciliation: the POST /identify handler over the Contact    *)
(* table.  The store is the table (a sequence indexed by the               *)
(* auto-incremented id); the handler is modelled stage by stage (matcher,  *)
(* resolver, merger, cluster fetch, extender, composer).                   *)
(***************************************************************************)
EXTENDS Integers, Sequences, FiniteSets, TLC

\* ------------------------------------------------------------------ bounds
\* rows the table may hold; a create that would exceed it is not taken
MaxContacts == 3
\* requests handled one at a time before the concurrent requests arrive
SeedRequests == 2

\* ------------------------------------------------------------- value space
\* SQL NULL / JS null / undefined: an absent email, phone, linkedId, deletedAt
NULL == 0
\* the email addresses and phone numbers requests are drawn from
Emails == {1, 2}
Phones == {1, 2}
\* request bodies that reach the handler: each field present or absent
InEmails == Emails \cup {NULL}
InPhones == Phones \cup {NULL}
\* the handler invocations that may overlap
Calls == {1, 2}

VARIABLES
    store,   \* the Contact table: store[i] is the row with id i
    req,     \* the body of the request handled last (sequential runs)
    resp,    \* the response sent last (sequential runs)
    calls    \* the handler invocations in flight (concurrent runs)

vars == <<store, req, resp, calls>>

\* ---------------------------------------------------------------- helpers
Range(s) == {s[i] : i \in DOMAIN s}

\* JS truthiness of an optional string field, as in `if (email)`
Truthy(v) == v # NULL

Rows(s) == Range(s)

\* timestamp of the latest row (0 on the empty table)
LastCreatedAt(s) == IF s = <<>> THEN 0 ELSE s[Len(s)].createdAt

\* the timestamps now() may give to the next row: the clock has or has not
\* advanced since the latest row was created (the first row gets 1)
NowChoices(s) == IF s = <<>> THEN {1} ELSE {LastCreatedAt(s), LastCreatedAt(s) + 1}

\* variant: the newest rows first
Latest(R) == {c \in R : \A d \in R : c.createdAt >= d.createdAt}

\* the rows of R with the least createdAt
Earliest(R) == {c \in R : \A d \in R : c.createdAt <= d.createdAt}

\* findMany(... orderBy: { createdAt: "asc" }): every order of the rows R that
\* is ascending in createdAt; rows with equal createdAt come in any order
RECURSIVE OrderByCreatedAt(_)
OrderByCreatedAt(R) ==
    IF R = {} THEN {<<>>}
    ELSE UNION {{<<c>> \o q : q \in OrderByCreatedAt(R \ {c})} : c \in Earliest(R)}

\* ---------------------------------------------------------------- matcher
\* variant: the conditions joined by AND
findMatchingBoth(s, email, phoneNumber) ==
    {c \in Range(s) :
        /\ c.deletedAt = NULL
        /\ Truthy(email) => c.email = email
        /\ Truthy(phoneNumber) => c.phoneNumber = phoneNumber}

\* where: { OR: conditions, deletedAt: null }
findMatching(s, email, phoneNumber) ==
    {c \in Rows(s) :
        /\ c.deletedAt = NULL
        /\ \/ Truthy(email) /\ c.email = email
           \/ Truthy(phoneNumber) /\ c.phoneNumber = phoneNumber}

\* --------------------------------------------------------------- resolver
\* variant: the linkedId of a matching secondary is not followed
resolveRootsOfPrimaries(matchingContacts) ==
    {c.id : c \in {m \in matchingContacts : m.linkPrecedence = "primary"}}

\* the loop over matchingContacts that fills primaryIds
resolveRoots(matchingContacts) ==
    {c.id : c \in {m \in matchingContacts : m.linkPrecedence = "primary"}}
    \cup
    {c.linkedId : c \in {m \in matchingContacts :
                            m.linkPrecedence # "primary" /\ m.linkedId # NULL}}

\* ----------------------------------------------------------------- create
newContact(s, email, phoneNumber, linkedId, linkPrecedence, now) ==
    [id |-> Len(s) + 1,
     email |-> IF Truthy(email) THEN email ELSE NULL,
     phoneNumber |-> IF Truthy(phoneNumber) THEN phoneNumber ELSE NULL,
     linkedId |-> linkedId,
     linkPrecedence |-> linkPrecedence,
     createdAt |-> now,
     deletedAt |-> NULL]

\* ----------------------------------------------------------------- merger
\* where: { id: { in: Array.from(primaryIds) } }, no deletedAt filter
findByIds(s, ids) == {c \in Rows(s) : c.id \in ids}

\* variant: the slice starts after the second primary
idsAfterSecond(primaries) == {primaries[i].id : i \in 3..Len(primaries)}

\* primaries.slice(1).map((p) => p.id)
idsAfterFirst(primaries) == {primaries[i].id : i \in 2..Len(primaries)}

\* variant: the demotion leaves linkedId as it was
demoteKeepsLink(s, otherPrimaryIds, rootPrimaryId) ==
    [i \in DOMAIN s |->
        IF s[i].id \in otherPrimaryIds
        THEN [s[i] EXCEPT !.linkPrecedence = "secondary"]
        ELSE s[i]]

\* variant: the demotion reaches every row but the survivor
demoteEveryOther(s, otherPrimaryIds, rootPrimaryId) ==
    [i \in DOMAIN s |->
        IF s[i].id # rootPrimaryId
        THEN [s[i] EXCEPT !.linkedId = rootPrimaryId,
                          !.linkPrecedence = "secondary"]
        ELSE s[i]]

\* updateMany where id in otherPrimaryIds
demote(s, otherPrimaryIds, rootPrimaryId) ==
    [i \in DOMAIN s |->
        IF s[i].id \in otherPrimaryIds
        THEN [s[i] EXCEPT !.linkedId = rootPrimaryId,
                          !.linkPrecedence = "secondary"]
        ELSE s[i]]

\* variant: the second write is missing
relinkSkipped(s, otherPrimaryIds, rootPrimaryId) == s

\* updateMany where linkedId in otherPrimaryIds
relink(s, otherPrimaryIds, rootPrimaryId) ==
    [i \in DOMAIN s |->
        IF s[i].linkedId \in otherPrimaryIds
        THEN [s[i] EXCEPT !.linkedId = rootPrimaryId]
        ELSE s[i]]

\* the committed transaction: both writes
mergeTransaction(s, otherPrimaryIds, rootPrimaryId) ==
    relink(demote(s, otherPrimaryIds, rootPrimaryId), otherPrimaryIds, rootPrimaryId)

\* ---------------------------------------------------------- cluster fetch
\* variant: the query without `deletedAt: null`
clusterRowsWithDeleted(s, rootPrimaryId) ==
    {c \in Rows(s) : c.id = rootPrimaryId \/ c.linkedId = rootPrimaryId}

\* where: { OR: [{ id: rootPrimaryId }, { linkedId: rootPrimaryId }], deletedAt: null }
clusterRows(s, rootPrimaryId) ==
    {c \in Rows(s) :
        /\ c.id = rootPrimaryId \/ c.linkedId = rootPrimaryId
        /\ c.deletedAt = NULL}

findCluster(s, rootPrimaryId) == OrderByCreatedAt(clusterRows(s, rootPrimaryId))

\* --------------------------------------------------------------- extender
existingEmails(cluster) == {c.email : c \in Range(cluster)} \ {NULL}
existingPhones(cluster) == {c.phoneNumber : c \in Range(cluster)} \ {NULL}

\* variant: a supplied phone number never counts as new
isPhoneNewNever(cluster, phoneNumber) == FALSE

\* variant: a supplied email always counts as new
isEmailNewAlways(cluster, email) == Truthy(email)

\* variant: a supplied email never counts as new
isEmailNewNever(cluster, email) == FALSE

isEmailNew(cluster, email) == Truthy(email) /\ email \notin existingEmails(cluster)
isPhoneNew(cluster, phoneNumber) ==
    Truthy(phoneNumber) /\ phoneNumber \notin existingPhones(cluster)

\* --------------------------------------------------------------- composer
\* variant: no de-duplication
pushAlways(list, v) == IF Truthy(v) THEN Append(list, v) ELSE list

\* `if (v && !list.includes(v)) list.push(v)`
pushUnique(list, v) == IF Truthy(v) /\ v \notin Range(list) THEN Append(list, v) ELSE list

RECURSIVE composeLoop(_, _, _, _)
composeLoop(cluster, rootPrimaryId, i, acc) ==
    IF i > Len(cluster) THEN acc
    ELSE IF cluster[i].id = rootPrimaryId
         THEN composeLoop(cluster, rootPrimaryId, i + 1, acc)
         ELSE composeLoop(cluster, rootPrimaryId, i + 1,
                [emails |-> pushUnique(acc.emails, cluster[i].email),
                 phoneNumbers |-> pushUnique(acc.phoneNumbers, cluster[i].phoneNumber),
                 secondaryContactIds |-> Append(acc.secondaryContactIds, cluster[i].id)])

Response(status, primaryId, emails, phoneNumbers, secondaryContactIds) ==
    [status |-> status, primaryContatctId |-> primaryId, emails |-> emails,
     phoneNumbers |-> phoneNumbers, secondaryContactIds |-> secondaryContactIds]

\* status 400 / 500 bodies carry no contact
ErrorResponse(status) == Response(status, NULL, <<>>, <<>>, <<>>)

\* cluster.find(...)! then the loop; a missing primary makes `primary.email`
\* throw, which the catch turns into the internal-error response
compose(cluster, rootPrimaryId) ==
    IF \A i \in DOMAIN cluster : cluster[i].id # rootPrimaryId
    THEN ErrorResponse(500)
    ELSE LET primary == cluster[CHOOSE i \in DOMAIN cluster : cluster[i].id = rootPrimaryId]
             out == composeLoop(cluster, rootPrimaryId, 1,
                        [emails |-> pushUnique(<<>>, primary.email),
                         phoneNumbers |-> pushUnique(<<>>, primary.phoneNumber),
                         secondaryContactIds |-> <<>>])
         IN Response(200, rootPrimaryId, out.emails, out.phoneNumbers,
                     out.secondaryContactIds)

\* variant: the new row is listed as its own secondary
newPrimaryResponseListsSelf(newPrimary) ==
    Response(200, newPrimary.id,
             IF Truthy(newPrimary.email) THEN <<newPrimary.email>> ELSE <<>>,
             IF Truthy(newPrimary.phoneNumber) THEN <<newPrimary.phoneNumber>> ELSE <<>>,
             <<newPrimary.id>>)

\* scenario 1 response
newPrimaryResponse(newPrimary) ==
    Response(200, newPrimary.id,
             IF Truthy(newPrimary.email) THEN <<newPrimary.email>> ELSE <<>>,
             IF Truthy(newPrimary.phoneNumber) THEN <<newPrimary.phoneNumber>> ELSE <<>>,
             <<>>)

\* ------------------------------------------------------------- validation
\* variant: no check at all
validInputAlways(email, phoneNumber) == TRUE

\* identifySchema superRefine / `if (!email && !phoneNumber)`
validInput(email, phoneNumber) == Truthy(email) \/ Truthy(phoneNumber)

\* ------------------------------------- the handler, run alone to completion
\* Each operator gives the set of outcomes [store, resp] the stage and the
\* stages after it can produce from table s: the choices are the timestamp of
\* a created row and the order of rows with equal createdAt in a fetch.
Outcome(s, r) == [store |-> s, resp |-> r]

\* scenario 1: no root, a new primary is created and returned
createPrimary(s, email, phoneNumber) ==
    {LET newPrimary == newContact(s, email, phoneNumber, NULL, "primary", now)
     IN Outcome(Append(s, newPrimary), newPrimaryResponse(newPrimary)) :
        now \in NowChoices(s)}

\* the extender and the composer over a fetched cluster
extend(s, email, phoneNumber, rootPrimaryId, cluster) ==
    IF isEmailNew(cluster, email) \/ isPhoneNew(cluster, phoneNumber)
    THEN {LET newSecondary == newContact(s, email, phoneNumber, rootPrimaryId,
                                         "secondary", now)
          IN Outcome(Append(s, newSecondary),
                     compose(Append(cluster, newSecondary), rootPrimaryId)) :
             now \in NowChoices(s)}
    ELSE {Outcome(s, compose(cluster, rootPrimaryId))}

\* step 3 onwards: cluster fetch, extender, composer
reconcile(s, email, phoneNumber, rootPrimaryId) ==
    UNION {extend(s, email, phoneNumber, rootPrimaryId, cluster) :
              cluster \in findCluster(s, rootPrimaryId)}

\* scenario 3: the merger, then step 3 onwards
merge(s, email, phoneNumber, primaryIds) ==
    UNION {reconcile(mergeTransaction(s, idsAfterFirst(primaries), primaries[1].id),
                     email, phoneNumber, primaries[1].id) :
              primaries \in OrderByCreatedAt(findByIds(s, primaryIds))}

\* --------------------------------------------------- state after construction
NoRequest == [email |-> NULL, phoneNumber |-> NULL]
NoResponse == ErrorResponse(0)

\* the locals of one invocation of the handler
Idle == [pc |-> "idle", email |-> NULL, phoneNumber |-> NULL, primaryIds |-> {},
         rootPrimaryId |-> NULL, otherPrimaryIds |-> {}, relinkIds |-> {},
         cluster |-> <<>>, resp |-> NoResponse]

Done(r) == [Idle EXCEPT !.pc = "done", !.resp = r]

Init ==
    /\ store = <<>>
    /\ req = NoRequest
    /\ resp = NoResponse
    /\ calls = [p \in Calls |-> Idle]

\* --------------------------------------------------------- sequential runs
\* A request is handled to completion in one step.  req and resp keep the
\* last exchange until it is discarded; while it is kept only the same
\* request may be issued again.
Accepts(email, phoneNumber) ==
    \/ req = NoRequest /\ resp = NoResponse
    \/ req = [email |-> email, phoneNumber |-> phoneNumber] /\ resp # NoResponse

Take(email, phoneNumber, outcomes) ==
    /\ \E o \in outcomes :
        /\ Len(o.store) <= MaxContacts
        /\ store' = o.store
        /\ resp' = o.resp
    /\ req' = [email |-> email, phoneNumber |-> phoneNumber]
    /\ UNCHANGED calls

\* validation failure: 400, no query is made
IdentifyInvalid(email, phoneNumber) ==
    /\ ~validInput(email, phoneNumber)
    /\ Accepts(email, phoneNumber)
    /\ req' = [email |-> email, phoneNumber |-> phoneNumber]
    /\ resp' = ErrorResponse(400)
    /\ UNCHANGED <<store, calls>>

IdentifyNew(email, phoneNumber) ==
    /\ validInput(email, phoneNumber)
    /\ Accepts(email, phoneNumber)
    /\ resolveRoots(findMatching(store, email, phoneNumber)) = {}
    /\ Take(email, phoneNumber, createPrimary(store, email, phoneNumber))

\* exactly one root: the merger is skipped
IdentifySingle(email, phoneNumber) ==
    /\ validInput(email, phoneNumber)
    /\ Accepts(email, phoneNumber)
    /\ LET primaryIds == resolveRoots(findMatching(store, email, phoneNumber)) IN
        /\ Cardinality(primaryIds) = 1
        /\ Take(email, phoneNumber,
                reconcile(store, email, phoneNumber, CHOOSE id \in primaryIds : TRUE))

IdentifyMerge(email, phoneNumber) ==
    /\ validInput(email, phoneNumber)
    /\ Accepts(email, phoneNumber)
    /\ LET primaryIds == resolveRoots(findMatching(store, email, phoneNumber)) IN
        /\ Cardinality(primaryIds) > 1
        /\ Take(email, phoneNumber, merge(store, email, phoneNumber, primaryIds))

\* the exchange is over: the next request may be any request
Discard ==
    /\ req # NoRequest \/ resp # NoResponse
    /\ req' = NoRequest
    /\ resp' = NoResponse
    /\ UNCHANGED <<store, calls>>

Next ==
    \/ \E email \in InEmails, phoneNumber \in InPhones :
        \/ IdentifyInvalid(email, phoneNumber)
        \/ IdentifyNew(email, phoneNumber)
        \/ IdentifySingle(email, phoneNumber)
        \/ IdentifyMerge(email, phoneNumber)
    \/ Discard

Spec == Init /\ [][Next]_vars

\* ========================================================= concurrent runs
\* The handler run alone, as one function of the table: every outcome.
run(s, email, phoneNumber) ==
    IF ~validInput(email, phoneNumber) THEN {Outcome(s, ErrorResponse(400))}
    ELSE LET primaryIds == resolveRoots(findMatching(s, email, phoneNumber)) IN
         IF primaryIds = {} THEN createPrimary(s, email, phoneNumber)
         ELSE IF Cardinality(primaryIds) = 1
              THEN reconcile(s, email, phoneNumber, CHOOSE id \in primaryIds : TRUE)
              ELSE merge(s, email, phoneNumber, primaryIds)

\* the tables n requests handled one at a time can leave
RECURSIVE storesAfter(_)
storesAfter(n) ==
    IF n = 0 THEN {<<>>}
    ELSE LET before == storesAfter(n - 1) IN
         before \cup
         {o.store : o \in UNION {run(s, email, phoneNumber) :
                                    s \in before, email \in InEmails,
                                    phoneNumber \in InPhones}}

InitConcurrent ==
    /\ store \in {s \in storesAfter(SeedRequests) : Len(s) <= MaxContacts}
    /\ req = NoRequest
    /\ resp = NoResponse
    /\ calls = [p \in Calls |-> Idle]

\* Every await on the store is one step of an invocation; the statements
\* between two awaits run with it.

\* the request arrives; validation, then step 1 (matcher) and step 2 (resolver)
Start(p, email, phoneNumber) ==
    /\ calls[p].pc = "idle"
    /\ UNCHANGED <<store, req, resp>>
    /\ IF ~validInput(email, phoneNumber)
       THEN calls' = [calls EXCEPT ![p] = Done(ErrorResponse(400))]
       ELSE LET primaryIds == resolveRoots(findMatching(store, email, phoneNumber))
                next == [Idle EXCEPT !.email = email, !.phoneNumber = phoneNumber]
            IN calls' = [calls EXCEPT ![p] =
                    IF primaryIds = {} THEN [next EXCEPT !.pc = "createPrimary"]
                    ELSE IF Cardinality(primaryIds) > 1
                         THEN [next EXCEPT !.pc = "fetchPrimaries",
                                           !.primaryIds = primaryIds]
                         ELSE [next EXCEPT !.pc = "fetchCluster",
                                           !.rootPrimaryId =
                                               CHOOSE id \in primaryIds : TRUE]]

\* variant: the match is read again in one step with the create
CreatePrimaryRechecked(p) ==
    /\ calls[p].pc = "createPrimary"
    /\ Len(store) < MaxContacts
    /\ \E o \in run(store, calls[p].email, calls[p].phoneNumber) :
        /\ store' = o.store
        /\ calls' = [calls EXCEPT ![p] = Done(o.resp)]
    /\ UNCHANGED <<req, resp>>

\* scenario 1: prisma.contact.create of the new primary, and the response
CreatePrimary(p) ==
    /\ calls[p].pc = "createPrimary"
    /\ Len(store) < MaxContacts
    /\ \E o \in createPrimary(store, calls[p].email, calls[p].phoneNumber) :
        /\ store' = o.store
        /\ calls' = [calls EXCEPT ![p] = Done(o.resp)]
    /\ UNCHANGED <<req, resp>>

\* scenario 3: the primaries are fetched in createdAt order
FetchPrimaries(p) ==
    /\ calls[p].pc = "fetchPrimaries"
    /\ \E primaries \in OrderByCreatedAt(findByIds(store, calls[p].primaryIds)) :
        calls' = [calls EXCEPT ![p].pc = "demote",
                               ![p].primaryIds = {},
                               ![p].rootPrimaryId = primaries[1].id,
                               ![p].otherPrimaryIds = idsAfterFirst(primaries)]
    /\ UNCHANGED <<store, req, resp>>

\* first updateMany inside prisma.$transaction: written in the transaction,
\* not visible outside it
TxDemote(p) ==
    /\ calls[p].pc = "demote"
    /\ calls' = [calls EXCEPT ![p].pc = "relink"]
    /\ UNCHANGED <<store, req, resp>>

\* the rows the second updateMany selects (where linkedId in otherPrimaryIds):
\* it reads the table as it is when it runs, with the transaction's own
\* demotion
relinkSelects(s, otherPrimaryIds, rootPrimaryId) ==
    {c.id : c \in {d \in Rows(demote(s, otherPrimaryIds, rootPrimaryId)) :
                      d.linkedId \in otherPrimaryIds}}

\* second updateMany inside prisma.$transaction: its rows are selected now,
\* its write is not visible outside the transaction
TxRelink(p) ==
    /\ calls[p].pc = "relink"
    /\ calls' = [calls EXCEPT ![p].pc = "commit",
                              ![p].relinkIds =
                                  relinkSelects(store, calls[p].otherPrimaryIds,
                                                calls[p].rootPrimaryId)]
    /\ UNCHANGED <<store, req, resp>>

\* variant: the commit also writes the survivor back to primary
commitTransactionPromoting(s, otherPrimaryIds, rootPrimaryId, relinkIds) ==
    [i \in DOMAIN s |->
        LET c == demote(s, otherPrimaryIds, rootPrimaryId)[i] IN
        IF c.id = rootPrimaryId
        THEN [c EXCEPT !.linkPrecedence = "primary", !.linkedId = NULL]
        ELSE IF c.id \in relinkIds THEN [c EXCEPT !.linkedId = rootPrimaryId] ELSE c]

\* what the commit writes to table s: the demotion of otherPrimaryIds, and
\* linkedId of the rows the second updateMany had selected
commitTransaction(s, otherPrimaryIds, rootPrimaryId, relinkIds) ==
    [i \in DOMAIN s |->
        LET c == demote(s, otherPrimaryIds, rootPrimaryId)[i] IN
        IF c.id \in relinkIds THEN [c EXCEPT !.linkedId = rootPrimaryId] ELSE c]

\* the transaction commits: both writes become visible
TxCommit(p) ==
    /\ calls[p].pc = "commit"
    /\ store' = commitTransaction(store, calls[p].otherPrimaryIds,
                                  calls[p].rootPrimaryId, calls[p].relinkIds)
    /\ calls' = [calls EXCEPT ![p].pc = "fetchCluster", ![p].otherPrimaryIds = {},
                              ![p].relinkIds = {}]
    /\ UNCHANGED <<req, resp>>

\* variant: the failed transaction keeps its first write
TxAbortKeepsDemote(p) ==
    /\ calls[p].pc \in {"relink", "commit"}
    /\ store' = demote(store, calls[p].otherPrimaryIds, calls[p].rootPrimaryId)
    /\ calls' = [calls EXCEPT ![p] = Done(ErrorResponse(500))]
    /\ UNCHANGED <<req, resp>>

\* the transaction fails or the server dies before the commit: it is rolled
\* back, the error reaches the catch
TxAbort(p) ==
    /\ calls[p].pc \in {"relink", "commit"}
    /\ calls' = [calls EXCEPT ![p] = Done(ErrorResponse(500))]
    /\ UNCHANGED <<store, req, resp>>

\* step 3: the cluster is fetched; with nothing new the response follows
FetchCluster(p) ==
    /\ calls[p].pc = "fetchCluster"
    /\ \E cluster \in findCluster(store, calls[p].rootPrimaryId) :
        calls' = [calls EXCEPT ![p] =
            IF \/ isEmailNew(cluster, calls[p].email)
               \/ isPhoneNew(cluster, calls[p].phoneNumber)
            THEN [calls[p] EXCEPT !.pc = "createSecondary", !.cluster = cluster]
            ELSE Done(compose(cluster, calls[p].rootPrimaryId))]
    /\ UNCHANGED <<store, req, resp>>

\* variant: the cluster is read again in one step with the create
CreateSecondaryRechecked(p) ==
    /\ calls[p].pc = "createSecondary"
    /\ Len(store) < MaxContacts
    /\ \E o \in run(store, calls[p].email, calls[p].phoneNumber) :
        /\ store' = o.store
        /\ calls' = [calls EXCEPT ![p] = Done(o.resp)]
    /\ UNCHANGED <<req, resp>>

\* scenario 2: prisma.contact.create of the new secondary, and the response
CreateSecondary(p) ==
    /\ calls[p].pc = "createSecondary"
    /\ Len(store) < MaxContacts
    /\ \E now \in NowChoices(store) :
        LET newSecondary == newContact(store, calls[p].email, calls[p].phoneNumber,
                                       calls[p].rootPrimaryId, "secondary", now)
        IN /\ store' = Append(store, newSecondary)
           /\ calls' = [calls EXCEPT ![p] =
                  Done(compose(Append(calls[p].cluster, newSecondary),
                               calls[p].rootPrimaryId))]
    /\ UNCHANGED <<req, resp>>

NextTx ==
    \E p \in Calls :
        \/ \E email \in InEmails, phoneNumber \in InPhones : Start(p, email, phoneNumber)
        \/ CreatePrimary(p)
        \/ FetchPrimaries(p)
        \/ TxDemote(p)
        \/ TxRelink(p)
        \/ TxCommit(p)
        \/ TxAbort(p)
        \/ FetchCluster(p)
        \/ CreateSecondary(p)

SpecTx == InitConcurrent /\ [][NextTx]_vars

\* ------------------------------- the handler without the transaction
\* first updateMany, visible at once
Demote(p) ==
    /\ calls[p].pc = "demote"
    /\ store' = demote(store, calls[p].otherPrimaryIds, calls[p].rootPrimaryId)
    /\ calls' = [calls EXCEPT ![p].pc = "relink"]
    /\ UNCHANGED <<req, resp>>

\* second updateMany
Relink(p) ==
    /\ calls[p].pc = "relink"
    /\ store' = relink(store, calls[p].otherPrimaryIds, calls[p].rootPrimaryId)
    /\ calls' = [calls EXCEPT ![p].pc = "fetchCluster", ![p].otherPrimaryIds = {}]
    /\ UNCHANGED <<req, resp>>

\* the second updateMany throws or the server dies before it: the first
\* write stays
RelinkFails(p) ==
    /\ calls[p].pc = "relink"
    /\ calls' = [calls EXCEPT ![p] = Done(ErrorResponse(500))]
    /\ UNCHANGED <<store, req, resp>>

NextLegacy ==
    \E p \in Calls :
        \/ \E email \in InEmails, phoneNumber \in InPhones : Start(p, email, phoneNumber)
        \/ CreatePrimary(p)
        \/ FetchPrimaries(p)
        \/ Demote(p)
        \/ Relink(p)
        \/ RelinkFails(p)
        \/ FetchCluster(p)
        \/ CreateSecondary(p)

SpecLegacy == InitConcurrent /\ [][NextLegacy]_vars

\* ============================================ sequential runs, soft deletes
\* The handler never sets deletedAt; a row is soft-deleted from outside, by
\* whoever owns the flag, between two exchanges.
SoftDelete(i) ==
    /\ req = NoRequest /\ resp = NoResponse
    /\ i \in DOMAIN store
    /\ store[i].deletedAt = NULL
    /\ store' = [store EXCEPT ![i].deletedAt = LastCreatedAt(store)]
    /\ UNCHANGED <<req, resp, calls>>

NextDel ==
    \/ Next
    \/ \E i \in 1..MaxContacts : SoftDelete(i)

SpecDel == Init /\ [][NextDel]_vars

\* ========================================== sequential runs, store failures
\* Any awaited store call may reject; the catch answers 500.  What the table
\* holds then: a call that rejects before the first write, and a transaction
\* that is rolled back, leave it as it was; once the merger's transaction has
\* committed, a rejected cluster fetch or create leaves the merged table.
failAfter(s, email, phoneNumber) ==
    LET primaryIds == resolveRoots(findMatching(s, email, phoneNumber)) IN
    {Outcome(s, ErrorResponse(500))}
    \cup
    (IF Cardinality(primaryIds) > 1
     THEN {Outcome(mergeTransaction(s, idsAfterFirst(primaries), primaries[1].id),
                   ErrorResponse(500)) :
              primaries \in OrderByCreatedAt(findByIds(s, primaryIds))}
     ELSE {})

IdentifyFails(email, phoneNumber) ==
    /\ validInput(email, phoneNumber)
    /\ Accepts(email, phoneNumber)
    /\ Take(email, phoneNumber, failAfter(store, email, phoneNumber))

NextFail ==
    \/ Next
    \/ \E email \in InEmails, phoneNumber \in InPhones : IdentifyFails(email, phoneNumber)

SpecFail == Init /\ [][NextFail]_vars

\* ============================= sequential runs after the race on a create
\* the requests that read an empty match set in table s
unmatched(s) ==
    {r \in InEmails \X InPhones :
        /\ validInput(r[1], r[2])
        /\ resolveRoots(findMatching(s, r[1], r[2])) = {}}

\* two calls have both read an empty match set in table s, for requests a
\* and b: each creates its primary (CreatePrimary), a's first
raceOf(s, a, b) ==
    {o.store : o \in UNION {createPrimary(first.store, b[1], b[2]) :
                               first \in createPrimary(s, a[1], a[2])}}

\* the tables such a race leaves
racedStores(s) ==
    UNION {raceOf(s, q[1], q[2]) : q \in unmatched(s) \X unmatched(s)}

InitRepair ==
    /\ store \in UNION {racedStores(s) :
                          s \in {t \in storesAfter(SeedRequests) :
                                    Len(t) + 2 <= MaxContacts}}
    /\ req = NoRequest
    /\ resp = NoResponse
    /\ calls = [p \in Calls |-> Idle]

\* after the race, requests are handled one at a time
SpecRepair == InitRepair /\ [][Next]_vars

\* ===================================================== properties (sequential)
\* the root a row resolves to
RootOf(c) == IF c.linkPrecedence = "primary" THEN c.id ELSE c.linkedId

Live(s) == {c \in Rows(s) : c.deletedAt = NULL}

\* the step handled the request now in req' (it is not Discard)
Handled == resp'.status # 0

\* the roots the request in req' touched in the table before the step
TouchedRoots == resolveRoots(findMatching(store, req'.email, req'.phoneNumber))

\* the rows that existed before the step, as they are after it
Kept == SubSeq(store', 1, Len(store))

\* C1: run one at a time from the empty table, every non-deleted row whose
\* linkedId is set points to an existing row that is primary.
NoSecondaryChains ==
    \A i \in DOMAIN store :
        (store[i].deletedAt = NULL /\ store[i].linkedId # NULL)
            => /\ store[i].linkedId \in DOMAIN store
               /\ store[store[i].linkedId].linkPrecedence = "primary"

\* a merge has re-pointed a secondary: row 2 was a primary with its own
\* secondary, row 3, and both now hang under row 1
RelinkedUnderSurvivor ==
    /\ Len(store) = 3
    /\ store[1].linkPrecedence = "primary"
    /\ store[2].linkPrecedence = "secondary" /\ store[2].linkedId = 1
    /\ store[3].linkPrecedence = "secondary" /\ store[3].linkedId = 1
    /\ store[2].email \notin {NULL, store[1].email}
    /\ store[2].phoneNumber = NULL
    /\ store[3].email = store[2].email

\* C4: run one at a time from the empty table, two non-deleted rows with the
\* same non-null email or the same non-null phone number have the same root.
SharedInfoSameCluster ==
    \A c, d \in Live(store) :
        (\/ c.email # NULL /\ c.email = d.email
         \/ c.phoneNumber # NULL /\ c.phoneNumber = d.phoneNumber)
            => RootOf(c) = RootOf(d)

\* three rows of one cluster in which no single row shares a field with
\* both of the others
ChainedCluster ==
    /\ Len(store) = 3
    /\ \A i \in 1..3 : RootOf(store[i]) = 1
    /\ store[1].email # NULL /\ store[1].phoneNumber = NULL
    /\ store[2].email # NULL /\ store[2].phoneNumber = NULL
    /\ store[1].email # store[2].email
    /\ store[3].phoneNumber # NULL
    /\ store[3].email \in {store[1].email, store[2].email}

\* what C5 asks of one step
OldestRootSurvivesStep ==
    LET roots == findByIds(store, TouchedRoots) IN
    (/\ Handled
     /\ Cardinality(roots) >= 2
     /\ \A c, d \in roots : c # d => c.createdAt # d.createdAt)
        => \E w \in roots :
            /\ \A d \in roots : w.createdAt <= d.createdAt
            /\ store'[w.id].linkPrecedence = "primary"
            /\ resp'.status = 200
            /\ resp'.primaryContatctId = w.id
            /\ \A d \in roots \ {w} : store'[d.id].linkPrecedence = "secondary"

\* C5: when the touched roots are two or more and their createdAt all differ,
\* the one with the least createdAt stays primary and is the returned
\* primaryContatctId, and every other touched root is demoted.
OldestRootSurvives == [][OldestRootSurvivesStep]_vars

\* the request bridged rows 1 and 2, created at different times, and row 1
\* was returned as the primary
MergedByAge ==
    /\ Len(store) = 2
    /\ store[1].createdAt < store[2].createdAt
    /\ store[1].linkPrecedence = "primary"
    /\ store[2].linkPrecedence = "secondary"
    /\ store[1].email # NULL /\ store[1].phoneNumber = NULL
    /\ store[2].email = NULL /\ store[2].phoneNumber # NULL
    /\ req = [email |-> store[1].email, phoneNumber |-> store[2].phoneNumber]
    /\ resp.status = 200 /\ resp.primaryContatctId = 1

\* what C6 asks of one step
MergeRelinksStep ==
    (Handled /\ Cardinality(TouchedRoots) >= 2)
        => /\ resp'.status = 200
           /\ resp'.primaryContatctId \in TouchedRoots
           /\ LET survivor == resp'.primaryContatctId
                  demoted == TouchedRoots \ {survivor}
              IN /\ store'[survivor].linkPrecedence = "primary"
                 /\ \A d \in demoted :
                     /\ store'[d].linkPrecedence = "secondary"
                     /\ store'[d].linkedId = survivor
                     /\ d \in Range(resp'.secondaryContactIds)
                 /\ \A i \in DOMAIN store :
                     store[i].linkedId \in demoted
                        => /\ store'[i].linkedId = survivor
                           /\ i \in Range(resp'.secondaryContactIds)

\* C6: after a merge of two or more roots, every demoted root is secondary
\* and linked to the survivor, every row that was linked to a demoted root is
\* linked to the survivor, and the response lists all of them as secondaries.
MergeRelinks == [][MergeRelinksStep]_vars

\* the merge just answered demoted row 2 and re-pointed its secondary, row 3
MergeAnswered ==
    /\ RelinkedUnderSurvivor
    /\ req.email = store[1].email
    /\ req.phoneNumber = store[3].phoneNumber
    /\ resp.status = 200 /\ resp.primaryContatctId = 1
    /\ Range(resp.secondaryContactIds) = {2, 3}

\* what C7 asks of one step
RepeatIsIdempotentStep ==
    (/\ resp.status = 200
     /\ resp'.status # 0
     /\ req' = req)
        => /\ store' = store
           /\ resp' = resp

\* C7: the same request issued again right after its first run returns the
\* same primaryContatctId, emails, phoneNumbers and secondaryContactIds, and
\* creates and changes no row.
RepeatIsIdempotent == [][RepeatIsIdempotentStep]_vars

\* the repeat of a request over a table whose rows all differ in createdAt
RepeatIsIdempotentWithoutTiesStep ==
    (\A i, j \in DOMAIN store : i # j => store[i].createdAt # store[j].createdAt)
        => RepeatIsIdempotentStep

RepeatIsIdempotentWithoutTies == [][RepeatIsIdempotentWithoutTiesStep]_vars

\* what a repeat keeps whatever the order of rows with equal createdAt: the
\* table, the primary, and the values and ids listed
RepeatKeepsContentStep ==
    (resp.status = 200 /\ resp'.status # 0 /\ req' = req)
        => /\ store' = store
           /\ resp'.status = 200
           /\ resp'.primaryContatctId = resp.primaryContatctId
           /\ Range(resp'.emails) = Range(resp.emails)
           /\ Range(resp'.phoneNumbers) = Range(resp.phoneNumbers)
           /\ Range(resp'.secondaryContactIds) = Range(resp.secondaryContactIds)

RepeatKeepsContent == [][RepeatKeepsContentStep]_vars

\* what C8 asks of one step
KnownInfoIsNoOpStep ==
    (/\ Handled
     /\ Cardinality(TouchedRoots) = 1
     /\ LET cluster == clusterRows(store, CHOOSE id \in TouchedRoots : TRUE) IN
         /\ Truthy(req'.email) => req'.email \in {c.email : c \in cluster}
         /\ Truthy(req'.phoneNumber) => req'.phoneNumber \in {c.phoneNumber : c \in cluster})
        => store' = store

\* C8: a request with exactly one root whose supplied email and phone number
\* already occur in that root's cluster leaves the table unchanged.
KnownInfoIsNoOp == [][KnownInfoIsNoOpStep]_vars

\* the only row holds an email and a phone number, and the request that was
\* just answered carried the email alone
KnownInfoAnswered ==
    /\ Len(store) = 1
    /\ store[1].email # NULL /\ store[1].phoneNumber # NULL
    /\ req = [email |-> store[1].email, phoneNumber |-> NULL]
    /\ resp.status = 200 /\ resp.primaryContatctId = 1

\* what C9 asks of one step
ExtenderStep ==
    (Handled /\ TouchedRoots # {})
        => /\ resp'.status = 200
           /\ LET survivor == resp'.primaryContatctId
                  cluster == clusterRows(Kept, survivor)
                  isNew == \/ /\ Truthy(req'.email)
                              /\ req'.email \notin {c.email : c \in cluster}
                           \/ /\ Truthy(req'.phoneNumber)
                              /\ req'.phoneNumber \notin {c.phoneNumber : c \in cluster}
              IN /\ Len(store') = Len(store) + (IF isNew THEN 1 ELSE 0)
                 /\ isNew =>
                     store'[Len(store')] =
                        [store'[Len(store')] EXCEPT
                            !.id = Len(store) + 1,
                            !.email = req'.email,
                            !.phoneNumber = req'.phoneNumber,
                            !.linkPrecedence = "secondary",
                            !.linkedId = survivor,
                            !.deletedAt = NULL]
                 /\ Cardinality(TouchedRoots) = 1 => Kept = store
                 /\ \A i \in DOMAIN store :
                     /\ Kept[i].email = store[i].email
                     /\ Kept[i].phoneNumber = store[i].phoneNumber
                     /\ Kept[i].createdAt = store[i].createdAt
                     /\ Kept[i].deletedAt = store[i].deletedAt

\* C9: with at least one root, the extender creates exactly one row if and
\* only if the supplied email is absent from the resolved cluster's emails or
\* the supplied phone number from its phones (after any merge); the row is
\* secondary, linked to the surviving primary, and carries both supplied
\* fields; the extender modifies no existing row.
Extender == [][ExtenderStep]_vars

\* scenario B: row 1 has both fields, the request repeated its email with
\* another phone number, and row 2 was created under row 1
ExtendedByPhone ==
    /\ Len(store) = 2
    /\ store[1].linkPrecedence = "primary"
    /\ store[1].email # NULL /\ store[1].phoneNumber # NULL
    /\ store[2].linkPrecedence = "secondary" /\ store[2].linkedId = 1
    /\ store[2].email = store[1].email
    /\ store[2].phoneNumber \notin {NULL, store[1].phoneNumber}
    /\ req = [email |-> store[2].email, phoneNumber |-> store[2].phoneNumber]
    /\ resp.status = 200
    /\ resp.phoneNumbers = <<store[1].phoneNumber, store[2].phoneNumber>>

\* what C10 asks of one step
NewCustomerStep ==
    (/\ Handled
     /\ validInput(req'.email, req'.phoneNumber)
     /\ findMatching(store, req'.email, req'.phoneNumber) = {})
        => /\ Len(store') = Len(store) + 1
           /\ Kept = store
           /\ LET c == store'[Len(store')] IN
               /\ c.id = Len(store) + 1
               /\ c.linkPrecedence = "primary"
               /\ c.linkedId = NULL
               /\ c.email = req'.email
               /\ c.phoneNumber = req'.phoneNumber
               /\ c.deletedAt = NULL
               /\ resp' = Response(200, c.id,
                            IF req'.email # NULL THEN <<req'.email>> ELSE <<>>,
                            IF req'.phoneNumber # NULL THEN <<req'.phoneNumber>> ELSE <<>>,
                            <<>>)

\* C10: a request that matches no non-deleted row creates exactly one row,
\* primary, without linkedId, carrying the supplied fields; no other row is
\* created or modified; the response names the new row as primary, lists
\* only the supplied values and no secondary.
NewCustomer == [][NewCustomerStep]_vars

\* scenario A: an email alone on the empty table
NewCustomerAnswered ==
    /\ Len(store) = 1
    /\ store[1].linkPrecedence = "primary"
    /\ store[1].phoneNumber = NULL
    /\ req = [email |-> store[1].email, phoneNumber |-> NULL]
    /\ resp = Response(200, 1, <<store[1].email>>, <<>>, <<>>)

\* c comes before d in the order (createdAt, id)
Before(c, d) ==
    \/ c.createdAt < d.createdAt
    \/ c.createdAt = d.createdAt /\ c.id <= d.id

\* what C15 asks of one step
SurvivorIsMinByCreatedAtIdStep ==
    LET roots == findByIds(store, TouchedRoots) IN
    (Handled /\ Cardinality(roots) >= 2)
        => \E w \in roots :
            /\ \A d \in roots : Before(w, d)
            /\ resp'.status = 200
            /\ resp'.primaryContatctId = w.id
            /\ store'[w.id].linkPrecedence = "primary"

\* C15: the survivor of a merge is the least of the touched roots in the
\* order (createdAt, id): among the earliest roots with equal createdAt the
\* one with the smallest id survives.
SurvivorIsMinByCreatedAtId == [][SurvivorIsMinByCreatedAtIdStep]_vars

\* rows 1 and 2 were primaries with the same createdAt, and the merge kept
\* row 2
LargerIdSurvived ==
    /\ Len(store) = 2
    /\ store[1].createdAt = store[2].createdAt
    /\ store[2].linkPrecedence = "primary"
    /\ store[1].linkPrecedence = "secondary" /\ store[1].linkedId = 2
    /\ resp.status = 200 /\ resp.primaryContatctId = 2

\* C16: run one at a time from the empty table, every secondary is created
\* no earlier than the primary its linkedId points to.
PrimaryIsOldest ==
    \A i \in DOMAIN store :
        store[i].linkPrecedence = "secondary"
            => /\ store[i].linkedId \in DOMAIN store
               /\ store[i].createdAt >= store[store[i].linkedId].createdAt

\* three rows created at three different times; row 2 was a primary with
\* row 3 as its secondary, and a merge has put both under row 1
YoungerClusterAbsorbed ==
    /\ RelinkedUnderSurvivor
    /\ store[1].createdAt < store[2].createdAt
    /\ store[2].createdAt < store[3].createdAt
    /\ store[3].phoneNumber # NULL
    /\ req = [email |-> store[1].email, phoneNumber |-> store[3].phoneNumber]
    /\ resp.status = 200

\* the roots reached through value v of field f
RootsBy(s, f, v) == {RootOf(c) : c \in {d \in Live(s) : d[f] = v}}

\* C22: run one at a time from the empty table, a request reaches at most one
\* root through its email and at most one through its phone number, so the
\* resolver's set of roots has at most two elements.
AtMostTwoRoots ==
    \A email \in InEmails, phoneNumber \in InPhones :
        /\ Truthy(email) => Cardinality(RootsBy(store, "email", email)) <= 1
        /\ Truthy(phoneNumber)
            => Cardinality(RootsBy(store, "phoneNumber", phoneNumber)) <= 1
        /\ Cardinality(resolveRoots(findMatching(store, email, phoneNumber))) <= 2

\* the table holds three primaries, and some request reaches two of them
ThreePrimariesTwoRoots ==
    /\ Len(store) = 3
    /\ \A i \in 1..3 : store[i].linkPrecedence = "primary"
    /\ \E email \in Emails, phoneNumber \in Phones :
        Cardinality(resolveRoots(findMatching(store, email, phoneNumber))) = 2

\* C24: run one at a time from the empty table, a row has a linkedId if and
\* only if it is secondary, and no row's linkedId is its own id.
LinkedIffSecondary ==
    \A i \in DOMAIN store :
        /\ store[i].linkPrecedence \in {"primary", "secondary"}
        /\ store[i].linkedId # NULL <=> store[i].linkPrecedence = "secondary"
        /\ store[i].linkedId # store[i].id

\* row 2 was created as a primary and demoted by a merge, row 3 was created
\* as a secondary; both are linked to row 1, which has no linkedId
DemotedAndCreatedSecondaries ==
    /\ Len(store) = 3
    /\ store[1].linkPrecedence = "primary" /\ store[1].linkedId = NULL
    /\ store[2].linkPrecedence = "secondary" /\ store[2].linkedId = 1
    /\ store[3].linkPrecedence = "secondary" /\ store[3].linkedId = 1
    /\ store[1].email # NULL /\ store[1].phoneNumber = NULL
    /\ store[2].email = NULL /\ store[2].phoneNumber # NULL
    /\ store[3].email = store[1].email
    /\ store[3].phoneNumber \notin {NULL, store[2].phoneNumber}

\* what C26 asks of one step
OwnValuesReturnedStep ==
    (Handled /\ resp'.status = 200)
        => /\ Truthy(req'.email) => req'.email \in Range(resp'.emails)
           /\ Truthy(req'.phoneNumber) => req'.phoneNumber \in Range(resp'.phoneNumbers)
           /\ resp'.primaryContatctId \in DOMAIN store'
           /\ store'[resp'.primaryContatctId].linkPrecedence = "primary"

\* C26: run one at a time over a table without soft-deleted rows, every
\* successful response lists the request's own email and phone number, as far
\* as supplied, and names as primaryContatctId a row that is primary in the
\* table the request leaves.
OwnValuesReturned == [][OwnValuesReturnedStep]_vars

\* the request carried the email of row 1 and the phone number of row 2, two
\* rows with nothing in common, and the response lists both values
BridgedValuesListed ==
    /\ Len(store) = 2
    /\ store[1].email # NULL /\ store[1].phoneNumber = NULL
    /\ store[2].email = NULL /\ store[2].phoneNumber # NULL
    /\ req = [email |-> store[1].email, phoneNumber |-> store[2].phoneNumber]
    /\ resp.status = 200
    /\ resp.emails = <<store[1].email>>
    /\ resp.phoneNumbers = <<store[2].phoneNumber>>
    /\ store[resp.primaryContatctId].linkPrecedence = "primary"

\* email e and phone number p are carried by non-deleted rows of one cluster
Together(s, e, p) ==
    \E c, d \in Live(s) :
        /\ c.email = e
        /\ d.phoneNumber = p
        /\ RootOf(c) = RootOf(d)

\* what C27 asks of one step: values of one cluster stay in one cluster; what
\* a response lists together is in one cluster; and a response to a request
\* that supplies one of two values of a cluster lists both
KnownIdentityGrowsStep ==
    \A e \in Emails, p \in Phones :
        /\ Together(store, e, p) => Together(store', e, p)
        /\ (Handled /\ resp'.status = 200)
            => /\ (e \in Range(resp'.emails) /\ p \in Range(resp'.phoneNumbers))
                    => Together(store', e, p)
               /\ (Together(store', e, p) /\ (req'.email = e \/ req'.phoneNumber = p))
                    => (e \in Range(resp'.emails) /\ p \in Range(resp'.phoneNumbers))

\* C27: run one at a time, an email and a phone number that a response has
\* listed together are listed together by every later successful response to
\* a request that supplies one of them.  By induction over the steps: the
\* two values are in one cluster when they are listed, stay in one cluster,
\* and a response lists the whole cluster of a supplied value.
KnownIdentityGrows == [][KnownIdentityGrowsStep]_vars

\* rows 1 and 2, with nothing in common, were linked by an earlier request; a
\* later request that supplied the email alone is answered with the phone
\* number as well
LinkedValuesListedLater ==
    /\ Len(store) = 2
    /\ store[1].email # NULL /\ store[1].phoneNumber = NULL
    /\ store[2].email = NULL /\ store[2].phoneNumber # NULL
    /\ store[2].linkedId = 1
    /\ req = [email |-> store[1].email, phoneNumber |-> NULL]
    /\ resp.status = 200
    /\ resp.emails = <<store[1].email>>
    /\ resp.phoneNumbers = <<store[2].phoneNumber>>

\* ========================================= properties (with soft deletes)
\* injective sequence
NoDuplicates(list) == \A i, j \in DOMAIN list : list[i] = list[j] => i = j

\* the createdAt of the first of the rows R that carries value v in field f
FirstSeen(R, f, v) ==
    LET at == {c.createdAt : c \in {d \in R : d[f] = v}}
    IN CHOOSE t \in at : \A u \in at : t <= u

\* what C11 asks of a response list over the cluster it was built from
ListedInOrder(list, f, primary, members) ==
    /\ NoDuplicates(list)
    /\ Range(list) = {c[f] : c \in members} \ {NULL}
    /\ primary[f] # NULL => list[1] = primary[f]
    /\ \A i, j \in DOMAIN list :
        (i < j /\ list[i] # primary[f] /\ list[j] # primary[f])
            => FirstSeen(members \ {primary}, f, list[i])
                 <= FirstSeen(members \ {primary}, f, list[j])

\* what C11 asks of one step
ListsAreComposedStep ==
    (Handled /\ resp'.status = 200)
        => LET primary == store'[resp'.primaryContatctId]
               members == clusterRows(store', primary.id)
           IN /\ primary \in members
              /\ ListedInOrder(resp'.emails, "email", primary, members)
              /\ ListedInOrder(resp'.phoneNumbers, "phoneNumber", primary, members)

\* C11: in every successful response the emails list has no duplicates, is
\* as a set the non-null emails of the non-deleted rows of the returned
\* primary's cluster, starts with the primary's own email when it has one, and
\* lists the others in the createdAt order of the rows that first carry them;
\* the same for phoneNumbers.
ListsAreComposed == [][ListsAreComposedStep]_vars

\* a cluster of three rows in which an email and a phone number occur twice,
\* answered with each value once and the primary's first
ComposedWithoutRepeats ==
    /\ Len(store) = 3
    /\ \A i \in 1..3 : RootOf(store[i]) = 1 /\ store[i].deletedAt = NULL
    /\ store[2].email = store[1].email
    /\ store[3].phoneNumber = store[2].phoneNumber
    /\ store[3].email \notin {NULL, store[1].email}
    /\ store[2].phoneNumber \notin {NULL, store[1].phoneNumber}
    /\ store[1].phoneNumber # NULL
    /\ resp.status = 200
    /\ resp.emails = <<store[1].email, store[3].email>>
    /\ resp.phoneNumbers = <<store[1].phoneNumber, store[2].phoneNumber>>

\* what C12 asks of one step
SecondariesAreListedStep ==
    (Handled /\ resp'.status = 200)
        => LET primaryId == resp'.primaryContatctId
               ids == resp'.secondaryContactIds
           IN /\ NoDuplicates(ids)
              /\ primaryId \notin Range(ids)
              /\ Range(ids) = {i \in DOMAIN store' :
                                  /\ store'[i].deletedAt = NULL
                                  /\ store'[i].linkedId = primaryId}

\* C12: in every successful response secondaryContactIds lists, each once,
\* exactly the ids of the non-deleted rows whose linkedId is the returned
\* primaryContatctId in the table the request leaves, a row the request has
\* just created included, and never the primaryContatctId itself.
SecondariesAreListed == [][SecondariesAreListedStep]_vars

\* row 2, a soft-deleted secondary of row 1, is left out of the response that
\* lists row 3, the secondary the request has just created
NewSecondaryListed ==
    /\ Len(store) = 3
    /\ store[1].linkPrecedence = "primary" /\ store[1].deletedAt = NULL
    /\ store[2].linkedId = 1 /\ store[2].deletedAt # NULL
    /\ store[3].linkedId = 1 /\ store[3].deletedAt = NULL
    /\ req = [email |-> store[3].email, phoneNumber |-> store[3].phoneNumber]
    /\ resp.status = 200 /\ resp.primaryContatctId = 1
    /\ resp.secondaryContactIds = <<3>>

\* what C17 asks of one step
DeletedRowsAreFrozenStep ==
    Handled
        => \A i \in DOMAIN store :
            store[i].deletedAt # NULL
                => /\ store'[i].linkPrecedence = store[i].linkPrecedence
                   /\ store'[i].linkedId = store[i].linkedId

\* C17: no request changes the linkPrecedence or the linkedId of a row whose
\* deletedAt is set, be it a soft-deleted secondary of a primary that a merge
\* demotes or a soft-deleted primary reached through a non-deleted secondary.
DeletedRowsAreFrozen == [][DeletedRowsAreFrozenStep]_vars

\* row 2 was a primary and is soft-deleted; a request that reached it through
\* its secondary, row 3, has demoted it under row 1
DeletedPrimaryDemoted ==
    /\ Len(store) = 3
    /\ store[1].linkPrecedence = "primary" /\ store[1].deletedAt = NULL
    /\ store[2].deletedAt # NULL
    /\ store[2].linkPrecedence = "secondary" /\ store[2].linkedId = 1
    /\ store[3].deletedAt = NULL /\ store[3].linkedId = 1
    /\ store[3].email = store[2].email /\ store[3].email # store[1].email
    /\ resp.status = 200 /\ resp.primaryContatctId = 1

\* what C18 asks of one step
DeletedRowsAreExcludedStep ==
    (Handled /\ validInput(req'.email, req'.phoneNumber))
        => /\ \A c \in findMatching(store, req'.email, req'.phoneNumber) :
                c.deletedAt = NULL
           /\ \A c \in findByIds(store, TouchedRoots) : c.deletedAt = NULL
           /\ resp'.status = 200
           /\ store'[resp'.primaryContatctId].deletedAt = NULL
           /\ \A i \in Range(resp'.secondaryContactIds) : store'[i].deletedAt = NULL
           /\ Range(resp'.emails) \subseteq {c.email : c \in Live(store')}
           /\ Range(resp'.phoneNumbers) \subseteq {c.phoneNumber : c \in Live(store')}

\* C18: a row with deletedAt set is in no match set, is not the root or the
\* surviving primary of a request, and gives no id, email or phone number to
\* a response; a request over a table that holds soft-deleted rows is still
\* answered, from the non-deleted rows alone.
DeletedRowsAreExcluded == [][DeletedRowsAreExcludedStep]_vars

\* row 1, a soft-deleted primary, was resolved as the root through its
\* secondary, row 2, and the request ended in the internal-error response
DeletedRootResolved ==
    /\ Len(store) = 2
    /\ store[1].linkPrecedence = "primary" /\ store[1].deletedAt # NULL
    /\ store[2].linkedId = 1 /\ store[2].deletedAt = NULL
    /\ req = [email |-> NULL, phoneNumber |-> store[2].phoneNumber]
    /\ store[1].phoneNumber # store[2].phoneNumber
    /\ resp = ErrorResponse(500)

\* what C23 asks of one step
OnlyMergerMutatesStep ==
    Handled
        => /\ Len(store') >= Len(store)
           /\ Cardinality(TouchedRoots) <= 1 => Kept = store
           /\ \A i \in DOMAIN store :
               /\ store'[i].id = store[i].id
               /\ store'[i].email = store[i].email
               /\ store'[i].phoneNumber = store[i].phoneNumber
               /\ store'[i].createdAt = store[i].createdAt
               /\ store'[i].deletedAt = store[i].deletedAt
               /\ store'[i].linkPrecedence # store[i].linkPrecedence
                    => /\ store[i].linkPrecedence = "primary"
                       /\ store'[i].linkPrecedence = "secondary"
                       /\ i \in TouchedRoots
               /\ store'[i].linkedId # store[i].linkedId
                    => /\ i \in TouchedRoots \/ store[i].linkedId \in TouchedRoots
                       /\ store'[i].linkedId \in TouchedRoots

\* C23: no request removes a row or changes the id, email, phoneNumber,
\* createdAt or deletedAt of an existing row; an existing row changes only by
\* going from primary to secondary or by a new linkedId, only in a request
\* that touches two or more roots, and only if it is one of those roots or
\* linked to one; with at most one root no existing row changes.
OnlyMergerMutates == [][OnlyMergerMutatesStep]_vars

\* of three primaries a request has bridged rows 1 and 2; row 2 is demoted
\* and row 3 is as it was
ThirdPrimaryUntouched ==
    /\ Len(store) = 3
    /\ store[1].linkPrecedence = "primary"
    /\ store[2].linkPrecedence = "secondary" /\ store[2].linkedId = 1
    /\ store[3].linkPrecedence = "primary" /\ store[3].linkedId = NULL
    /\ store[2].createdAt <= store[3].createdAt
    /\ req.email \in {store[1].email, store[2].email} \ {NULL}
    /\ req.phoneNumber \in {store[1].phoneNumber, store[2].phoneNumber} \ {NULL}
    /\ resp.status = 200 /\ resp.secondaryContactIds = <<2>>

\* ======================================== properties (with store failures)
\* what C13 asks of one step
FailureLeavesNoEffectStep == (Handled /\ resp'.status # 200) => store' = store

\* C13: a request that fails at any stage, a store call rejecting or the
\* handler throwing, leaves the table as it was before the request, also when
\* the merge has committed before the failure.
FailureLeavesNoEffect == [][FailureLeavesNoEffectStep]_vars

\* a request answered 500 has left a merge behind: rows 1 and 2 were two
\* primaries and the failed request bridged them
MergeKeptAfterFailure ==
    /\ Len(store) = 2
    /\ store[2].linkPrecedence = "secondary" /\ store[2].linkedId = 1
    /\ store[1].email # NULL /\ store[1].phoneNumber = NULL
    /\ store[2].email = NULL
    /\ req = [email |-> store[1].email, phoneNumber |-> store[2].phoneNumber]
    /\ resp.status = 500

\* what C14 asks of one step
EmptyRequestRejectedStep ==
    (Handled /\ req'.email = NULL /\ req'.phoneNumber = NULL)
        => /\ resp'.status = 400
           /\ resp'.status # ErrorResponse(500).status
           /\ store' = store

\* C14: a request with neither an email nor a phone number is answered 400,
\* which is not the 500 of an internal failure, and leaves the table
\* unchanged.
EmptyRequestRejected == [][EmptyRequestRejectedStep]_vars

\* the empty request was just answered 400 over a table that holds rows
RejectedWithoutFields ==
    /\ Len(store) >= 2
    /\ req = [email |-> NULL, phoneNumber |-> NULL]
    /\ resp = ErrorResponse(400)

\* ===================================================== properties (concurrent)
\* C2: under every interleaving of concurrent requests whose store queries
\* are atomic steps and whose merge is one transaction, every non-deleted
\* secondary's linkedId points to a row that is primary.
HierarchyUnderConcurrency ==
    \A c \in Live(store) :
        c.linkPrecedence = "secondary"
            => \E d \in Rows(store) : d.id = c.linkedId /\ d.linkPrecedence = "primary"

\* what C19 asks of one step
MergeAbortIsCleanStep ==
    \A p \in Calls :
        /\ (/\ calls[p].pc \in {"demote", "relink", "commit"}
            /\ calls'[p] # calls[p]
            /\ calls'[p].pc \in {"relink", "commit", "done"})
            => store' = store
        /\ (calls[p].pc \in {"relink", "commit"} /\ calls'[p].pc = "done")
            => calls'[p].resp = ErrorResponse(500)
        /\ calls[p].pc = "done" => calls'[p] = calls[p]

\* C19: while the merge transaction is open none of its writes is in the
\* table; when the store aborts it the table is left as it was, the request
\* ends with the internal-failure response, and the handler takes no further
\* step for it: no retry, no create.
MergeAbortIsClean == [][MergeAbortIsCleanStep]_vars

\* a merge of rows 1 and 2 was aborted: the request ended in 500 and both
\* rows are still primaries
MergeAborted ==
    /\ Len(store) = 2
    /\ \A i \in 1..2 : store[i].linkPrecedence = "primary" /\ store[i].linkedId = NULL
    /\ \E p \in Calls : calls[p].pc = "done" /\ calls[p].resp = ErrorResponse(500)

\* two non-deleted primaries of table s carry the same email or phone number
SharedByTwoPrimaries(s) ==
    \E c, d \in Live(s) :
        /\ c.id # d.id
        /\ c.linkPrecedence = "primary" /\ d.linkPrecedence = "primary"
        /\ \/ c.email # NULL /\ c.email = d.email
           \/ c.phoneNumber # NULL /\ c.phoneNumber = d.phoneNumber

\* what C20 asks of one step
RaceOnNewPrimaryStep ==
    \A p \in Calls :
        (calls[p].pc = "createPrimary" /\ calls'[p].pc = "done")
            => LET new == store'[Len(store')] IN
               /\ Len(store') = Len(store) + 1
               /\ Kept = store
               /\ new.linkPrecedence = "primary" /\ new.linkedId = NULL
               /\ new.email = calls[p].email
               /\ new.phoneNumber = calls[p].phoneNumber
               /\ calls'[p].resp.status = 200
               /\ calls'[p].resp.primaryContatctId = new.id
               /\ (\E c \in findMatching(store, calls[p].email, calls[p].phoneNumber) :
                      c.linkPrecedence = "primary")
                    => SharedByTwoPrimaries(store')

\* C20: a request that has read an empty match set creates its primary
\* whatever has been written since; when another request has meanwhile
\* created a primary with the same email or phone number, the table ends
\* with two primaries that carry the same value.
RaceOnNewPrimary == [][RaceOnNewPrimaryStep]_vars

\* both requests have been answered with a primary of their own, and the two
\* primaries carry the same email or phone number
TwoPrimariesCreated ==
    /\ \A p \in Calls : calls[p].pc = "done" /\ calls[p].resp.status = 200
    /\ calls[1].resp.primaryContatctId # calls[2].resp.primaryContatctId
    /\ LET c == store[calls[1].resp.primaryContatctId]
           d == store[calls[2].resp.primaryContatctId]
       IN /\ c.linkPrecedence = "primary" /\ d.linkPrecedence = "primary"
          /\ c.deletedAt = NULL /\ d.deletedAt = NULL
          /\ \/ c.email # NULL /\ c.email = d.email
             \/ c.phoneNumber # NULL /\ c.phoneNumber = d.phoneNumber

\* two non-deleted secondaries of table s are equal in email, phone number and
\* linkedId
DuplicateSecondaries(s) ==
    \E c, d \in Live(s) :
        /\ c.id # d.id
        /\ c.linkPrecedence = "secondary" /\ d.linkPrecedence = "secondary"
        /\ c.email = d.email
        /\ c.phoneNumber = d.phoneNumber
        /\ c.linkedId = d.linkedId

\* what C21 asks of one step
RaceOnExtensionStep ==
    \A p \in Calls :
        (calls[p].pc = "createSecondary" /\ calls'[p].pc = "done")
            => LET new == store'[Len(store')] IN
               /\ Len(store') = Len(store) + 1
               /\ Kept = store
               /\ new.linkPrecedence = "secondary"
               /\ new.linkedId = calls[p].rootPrimaryId
               /\ new.email = calls[p].email
               /\ new.phoneNumber = calls[p].phoneNumber
               /\ calls'[p].resp.status = 200
               /\ new.id \in Range(calls'[p].resp.secondaryContactIds)
               /\ (\E c \in Live(store) :
                      /\ c.linkPrecedence = "secondary"
                      /\ c.linkedId = calls[p].rootPrimaryId
                      /\ c.email = calls[p].email
                      /\ c.phoneNumber = calls[p].phoneNumber)
                    => DuplicateSecondaries(store')

\* C21: a request that has fetched its cluster and found its info new creates
\* its secondary whatever has been written since; when an identical request
\* has meanwhile created its own, the table ends with two secondaries equal
\* in email, phone number and linkedId, and every secondary of that table
\* still points to a primary.
RaceOnExtension == [][RaceOnExtensionStep]_vars

\* both requests have been answered, each listing a secondary of its own; the
\* two secondaries are equal in email, phone number and linkedId, and every
\* secondary of the table points to a primary
TwoSecondariesCreated ==
    /\ \A p \in Calls : calls[p].pc = "done" /\ calls[p].resp.status = 200
    /\ Len(store) = 3
    /\ store[1].linkPrecedence = "primary"
    /\ \A i \in 2..3 : store[i].linkPrecedence = "secondary" /\ store[i].linkedId = 1
    /\ store[2].email = store[3].email
    /\ store[2].phoneNumber = store[3].phoneNumber
    /\ calls[1].resp.primaryContatctId = 1 /\ calls[2].resp.primaryContatctId = 1
    /\ \E i, j \in 2..3 :
        /\ i # j
        /\ calls[1].resp.secondaryContactIds = <<i>>
        /\ calls[2].resp.secondaryContactIds = <<j>>
    /\ HierarchyUnderConcurrency

\* what C25 asks of one step
DemotionIsFinalStep ==
    \A i \in DOMAIN store :
        store[i].linkPrecedence = "secondary"
            => /\ i \in DOMAIN store'
               /\ store'[i].linkPrecedence = "secondary"

\* C25: under any interleaving of requests a row that is secondary, demoted
\* or created so, is secondary in every later state.
DemotionIsFinal == [][DemotionIsFinalStep]_vars

\* row 2, created as a primary, was demoted under row 1 by one request and is
\* still secondary after the other request, which reached it, was answered
DemotedRowReachedAgain ==
    /\ Len(store) = 2
    /\ store[1].linkPrecedence = "primary"
    /\ store[2].linkPrecedence = "secondary" /\ store[2].linkedId = 1
    /\ store[2].email = NULL /\ store[1].phoneNumber = NULL
    /\ \A p \in Calls :
        /\ calls[p].pc = "done"
        /\ calls[p].resp.status = 200
        /\ calls[p].resp.primaryContatctId = 1
        /\ calls[p].resp.secondaryContactIds = <<2>>

\* the non-deleted primaries of table s that carry the email, or the phone
\* number, of the request: one set for each field supplied
SharingPrimaries(s, email, phoneNumber) ==
    {{c.id : c \in {d \in Live(s) : d.linkPrecedence = "primary" /\ d.email = email}} :
        e \in {email} \ {NULL}}
    \cup
    {{c.id : c \in {d \in Live(s) : d.linkPrecedence = "primary"
                                      /\ d.phoneNumber = phoneNumber}} :
        n \in {phoneNumber} \ {NULL}}

\* a request is handled alone in this step
HandledAlone == Handled /\ resp'.status = 200

\* what C28 asks of one step
RaceIsRepairedStep ==
    HandledAlone
        => \A ids \in SharingPrimaries(store, req'.email, req'.phoneNumber) :
            Cardinality(ids) >= 2
                => LET left == {i \in ids : store'[i].linkPrecedence = "primary"} IN
                   /\ Cardinality(left) = 1
                   /\ \A i \in left :
                        /\ \A j \in ids : store[i].createdAt <= store[j].createdAt
                        /\ \A c \in Rows(store) :
                            (c.id \in ids \ {i} \/ c.linkedId \in ids \ {i})
                                => /\ store'[c.id].linkPrecedence = "secondary"
                                   /\ store'[c.id].linkedId = i

\* C28: when two or more primaries carry the same email or phone number, a
\* request that carries the value and is handled alone leaves exactly one of
\* them primary, the oldest, and the others and their secondaries linked
\* directly to it.
RaceIsRepaired == [][RaceIsRepairedStep]_vars

\* the same, when the survivor need not be one of the primaries that carry
\* the value: the request's other field may reach a primary that is as old
\* or older
RaceIsRepairedUnderOldestStep ==
    HandledAlone
        => \A ids \in SharingPrimaries(store, req'.email, req'.phoneNumber) :
            Cardinality(ids) >= 2
                => \E root \in DOMAIN store :
                    /\ store[root].linkPrecedence = "primary"
                    /\ store'[root].linkPrecedence = "primary"
                    /\ store'[root].linkedId = NULL
                    /\ \A j \in ids : store[root].createdAt <= store[j].createdAt
                    /\ root \notin ids
                        => \E c \in Live(store) :
                            /\ RootOf(c) = root
                            /\ \/ c.email # NULL /\ c.email = req'.email
                               \/ c.phoneNumber # NULL /\ c.phoneNumber = req'.phoneNumber
                    /\ \A c \in Rows(store) :
                        (c.id \in ids \ {root} \/ c.linkedId \in ids \ {root})
                            => /\ store'[c.id].linkPrecedence = "secondary"
                               /\ store'[c.id].linkedId = root

\* C28, with the survivor taken among all the primaries the request reaches:
\* when two or more primaries carry the same email or phone number, a request
\* that carries the value and is handled alone leaves at most one of them
\* primary; they and their secondaries are linked directly to one primary
\* that is at least as old as each of them, which is one of them unless the
\* request's other value reaches another primary.
RaceIsRepairedUnderOldest == [][RaceIsRepairedUnderOldestStep]_vars

\* rows 2 and 3, equal in both fields, were created by the race; the request
\* carried their email and the phone number of row 1, and left both linked
\* to row 1
RacedPrimariesUnderThird ==
    /\ Len(store) = 3
    /\ store[1].linkPrecedence = "primary"
    /\ store[2].email # NULL /\ store[2].email # store[1].email
    /\ store[2].email = store[3].email
    /\ store[2].phoneNumber = store[3].phoneNumber
    /\ store[2].phoneNumber # store[1].phoneNumber
    /\ \A i \in 2..3 : store[i].linkPrecedence = "secondary" /\ store[i].linkedId = 1
    /\ req = [email |-> store[2].email, phoneNumber |-> store[1].phoneNumber]
    /\ resp.status = 200

\* what C3 asks of one step
MergeIsAtomicStep ==
    /\ \A d \in DOMAIN store :
        (store[d].linkPrecedence = "primary" /\ store'[d].linkPrecedence = "secondary")
            => \A i \in DOMAIN store :
                store[i].linkedId = d => store'[i].linkedId = store'[d].linkedId
    /\ \A i \in DOMAIN store :
        (store[i].linkedId # NULL /\ store'[i].linkedId # store[i].linkedId)
            => store'[store[i].linkedId].linkPrecedence = "secondary"

\* C3: the merger's two writes take effect as one unit.  In every step, a row
\* that stops being primary takes all the rows linked to it along to its new
\* primary, and a row is re-pointed away only from a row that is not left
\* primary, so no state shows one write without the other.
MergeIsAtomic == [][MergeIsAtomicStep]_vars

\* a merge stopped between its two writes: the demoted row is secondary and a
\* row is still linked to it
MergeHalfWritten ==
    \E p \in Calls :
        /\ calls[p].resp.status = 500
        /\ \E d \in DOMAIN store :
            /\ store[d].linkPrecedence = "secondary"
            /\ \E i \in DOMAIN store : store[i].linkedId = d

====
